---- MODULE Spec2Model ----
(***************************************************************************)
(* cfit: estimate of the GPU memory a model needs, from a parameter count  *)
(* or from the size of the model's files in a registry.                    *)
(*                                                                         *)
(* Python integers are unbounded and Python floats are IEEE-754 doubles.   *)
(* An integer is modelled as a sequence of base-10000 limbs, least         *)
(* significant first, without leading zero limbs (<<>> is 0).  A double is *)
(* modelled as [m, e], the value m * 2^e with m an integer of at most 53   *)
(* bits, and every operation that rounds in Python rounds here the same    *)
(* way (to nearest, ties to even).  A Python str that the code inspects is *)
(* a sequence of one-character strings.                                    *)
(***************************************************************************)
EXTENDS Integers, Sequences, FiniteSets, TLC

(***************************************************************************)
(* Unbounded integers                                                      *)
(***************************************************************************)

Max(S) == CHOOSE x \in S : \A y \in S : y <= x
Min(S) == CHOOSE x \in S : \A y \in S : x <= y

\* the element of a one-element set.  The({e(x) : x \in {v}}) is e(v), with v
\* evaluated once, and first
The(S) == CHOOSE e \in S : TRUE

RECURSIVE BigOfNat(_)
BigOfNat(n) == IF n = 0 THEN <<>> ELSE <<n % 10000>> \o BigOfNat(n \div 10000)

RECURSIVE NatOfBig(_)
NatOfBig(a) == IF a = <<>> THEN 0 ELSE Head(a) + 10000 * NatOfBig(Tail(a))

\* a without its leading zero limbs
BigNorm(a) ==
    LET nz == {i \in 1..Len(a) : a[i] # 0}
    IN  IF nz = {} THEN <<>> ELSE SubSeq(a, 1, Max(nz))

Limb(a, i) == IF i >= 1 /\ i <= Len(a) THEN a[i] ELSE 0

\* a * 10000 + d
BigPush(d, a) == IF a = <<>> /\ d = 0 THEN <<>> ELSE <<d>> \o a

\* limbs i.. of a + b, with the carry c into limb i
RECURSIVE BigAddAt(_, _, _, _)
BigAddAt(a, b, i, c) ==
    IF i > Len(a) /\ i > Len(b) THEN BigOfNat(c)
    ELSE <<(Limb(a, i) + Limb(b, i) + c) % 10000>>
         \o BigAddAt(a, b, i + 1, (Limb(a, i) + Limb(b, i) + c) \div 10000)

BigAdd(a, b) == BigAddAt(a, b, 1, 0)

\* limbs i.. of a - b, with the borrow c from limb i
RECURSIVE BigSubAt(_, _, _, _)
BigSubAt(a, b, i, c) ==
    IF i > Len(a) THEN <<>>
    ELSE <<(a[i] + 10000 - Limb(b, i) - c) % 10000>>
         \o BigSubAt(a, b, i + 1, IF a[i] - Limb(b, i) - c < 0 THEN 1 ELSE 0)

\* a - b, for a >= b
BigSub(a, b) == BigNorm(BigSubAt(a, b, 1, 0))

\* -1, 0, 1 as a <, =, > b
BigCmp(a, b) ==
    IF Len(a) # Len(b) THEN (IF Len(a) < Len(b) THEN -1 ELSE 1)
    ELSE LET d == {i \in 1..Len(a) : a[i] # b[i]}
         IN  IF d = {} THEN 0
             ELSE IF a[Max(d)] < b[Max(d)] THEN -1 ELSE 1

BigLeq(a, b) == BigCmp(a, b) <= 0
BigLess(a, b) == BigCmp(a, b) < 0

\* limbs i.. of a * m, with the carry c into limb i
RECURSIVE BigMulSmallAt(_, _, _, _)
BigMulSmallAt(a, m, i, c) ==
    IF i > Len(a) THEN BigOfNat(c)
    ELSE <<(a[i] * m + c) % 10000>>
         \o BigMulSmallAt(a, m, i + 1, (a[i] * m + c) \div 10000)

\* a * m, for a machine-sized m <= 200000
BigMulSmall(a, m) == IF a = <<>> \/ m = 0 THEN <<>> ELSE BigMulSmallAt(a, m, 1, 0)

\* a * (limbs j.. of b)
RECURSIVE BigMulAt(_, _, _)
BigMulAt(a, b, j) ==
    IF j > Len(b) THEN <<>>
    ELSE BigAdd(BigMulSmall(a, b[j]), BigPush(0, BigMulAt(a, b, j + 1)))

BigMul(a, b) == IF a = <<>> THEN <<>> ELSE BigMulAt(a, b, 1)

\* <<quotient, remainder>> of limbs i.. of a by a machine-sized d <= 200000
RECURSIVE BigDivSmallAt(_, _, _)
BigDivSmallAt(a, d, i) ==
    IF i > Len(a) THEN << <<>>, 0 >>
    ELSE LET hi == BigDivSmallAt(a, d, i + 1)
         IN  <<BigPush((hi[2] * 10000 + a[i]) \div d, hi[1]), (hi[2] * 10000 + a[i]) % d>>

BigDivSmall(a, d) == BigDivSmallAt(a, d, 1)

\* acc plus w times the largest decimal digit d with (acc + d * w) * b <= r
QuotPick(r, b, acc, w) ==
    acc + w * Max({d \in 0..9 : BigLeq(BigMulSmall(b, acc + d * w), r)})

\* the largest q in 0..9999 with q * b <= r, found decimal digit by decimal digit
QuotDigit(r, b) ==
    The({QuotPick(r, b, q3, 1) :
            q3 \in {QuotPick(r, b, q2, 10) :
                q2 \in {QuotPick(r, b, q1, 100) : q1 \in {QuotPick(r, b, 0, 1000)}}}})

\* one step of long division: x is the remainder so far with the next limb of
\* the dividend pushed; <<the quotient limb, the next remainder>>
DivStepOf(x, b) == The({<<qd, BigSub(x, BigMulSmall(b, qd))>> : qd \in {QuotDigit(x, b)}})

DivStep(r, d, b) == The({DivStepOf(x, b) : x \in {BigPush(d, r)}})

\* the steps of the long division of limbs i, i-1, .. 1 of a, given the
\* remainder r of the limbs above i
RECURSIVE DivSteps(_, _, _, _)
DivSteps(a, b, i, r) ==
    IF i = 0 THEN <<>>
    ELSE LET st == DivStep(r, a[i], b)
         IN  <<st>> \o DivSteps(a, b, i - 1, st[2])

\* <<a div b, a mod b>>, for b > 0
BigDivMod(a, b) ==
    IF BigLess(a, b) THEN <<<<>>, a>>
    ELSE IF Len(b) = 1
    THEN <<BigDivSmall(a, b[1])[1], BigOfNat(BigDivSmall(a, b[1])[2])>>
    ELSE LET n     == Len(a) - Len(b) + 1
             steps == DivSteps(a, b, n, SubSeq(a, n + 1, Len(a)))
         IN  <<BigNorm([i \in 1..n |-> steps[n + 1 - i][1]]), steps[n][2]>>

BigDiv(a, b) == BigDivMod(a, b)[1]
BigMod(a, b) == BigDivMod(a, b)[2]

\* 8192^j = 2^(13 j), for j = 0 .. 12
Pow8192 ==
    << <<1>>,
       <<8192>>,
       <<8864, 6710>>,
       <<3888, 5581, 5497>>,
       <<496, 2737, 5996, 4503>>,
       <<3232, 1910, 1474, 3488, 3689>>,
       <<6544, 9367, 6572, 4903, 3145, 3022>>,
       <<8448, 9824, 5497, 760, 7857, 8800, 2475>>,
       <<6016, 5128, 9472, 423, 5167, 6036, 2409, 2028>>,
       <<3072, 3504, 8825, 2975, 8411, 1144, 9473, 5349, 1661>>,
       <<5824, 7284, 7270, 8429, 5349, 8538, 3753, 6768, 1294, 1361>>,
       <<208, 5299, 1807, 6324, 5913, 7678, 1570, 6531, 5992, 372, 1115>>,
       <<3936, 9578, 7284, 7688, 4476, 3020, 7730, 3238, 1814, 2333, 4385, 913>> >>

Pow2Small == <<1, 2, 4, 8, 16, 32, 64, 128, 256, 512, 1024, 2048, 4096>>

\* 2^k
RECURSIVE BigPow2(_)
BigPow2(k) ==
    IF k < 13 * Len(Pow8192)
    THEN BigMulSmall(Pow8192[(k \div 13) + 1], Pow2Small[(k % 13) + 1])
    ELSE BigMul(BigPow2(k - 156), Pow8192[13])

RECURSIVE BigPow10(_)
BigPow10(k) == IF k = 0 THEN <<1>>
               ELSE IF k >= 4 THEN <<0>> \o BigPow10(k - 4)
               ELSE BigMulSmall(BigPow10(k - 1), 10)

RECURSIVE NatBitLen(_)
NatBitLen(n) == IF n = 0 THEN 0 ELSE 1 + NatBitLen(n \div 2)

\* the number of bits of a: 2^(BitLen - 1) <= a < 2^BitLen.  A limb is
\* log2(10000) = 13.2877.. bits, which places a within three candidates
BitLen(a) ==
    IF a = <<>> THEN 0
    ELSE LET lo == NatBitLen(a[Len(a)]) + ((Len(a) - 1) * 132877) \div 10000
         IN  CHOOSE k \in lo..(lo + 2) :
                BigLeq(BigPow2(k - 1), a) /\ BigLess(a, BigPow2(k))

\* <<a div 2^j, whether a mod 2^j # 0>>
RECURSIVE BigShr(_, _)
BigShr(a, j) ==
    IF j = 0 THEN <<a, FALSE>>
    ELSE IF j >= 13
    THEN The({The({<<hi[1], hi[2] \/ lo[2] # 0>> : hi \in {BigShr(lo[1], j - 13)}}) :
                 lo \in {BigDivSmall(a, 8192)}})
    ELSE The({<<lo[1], lo[2] # 0>> : lo \in {BigDivSmall(a, Pow2Small[j + 1])}})

\* q, or q + 1 when up
BigBump(q, up) == IF up THEN BigAdd(q, <<1>>) ELSE q

\* the integer nearest to (a + f) / 2^j, ties to the even one, where the
\* fraction f in [0, 1) is nonzero iff sticky; j >= 1
BigShrRound(a, j, sticky) ==
    The({The({BigBump(q[1], q[2] = 1 /\ (h[2] \/ sticky \/ Limb(q[1], 1) % 2 = 1)) :
                 q \in {BigDivSmall(h[1], 2)}}) :
            h \in {BigShr(a, j - 1)}})

(***************************************************************************)
(* Decimal text of an integer                                              *)
(***************************************************************************)

Digits == <<"0", "1", "2", "3", "4", "5", "6", "7", "8", "9">>

DigitChar(d) == Digits[d + 1]

IsDigit(c) == \E i \in 1..10 : Digits[i] = c

DigitVal(c) == (CHOOSE i \in 1..10 : Digits[i] = c) - 1

Limb4(d) == <<DigitChar(d \div 1000), DigitChar((d \div 100) % 10),
              DigitChar((d \div 10) % 10), DigitChar(d % 10)>>

RECURSIVE NatStr(_)
NatStr(n) == IF n < 10 THEN <<DigitChar(n)>>
             ELSE NatStr(n \div 10) \o <<DigitChar(n % 10)>>

\* str(n) for n >= 0
RECURSIVE BigStr(_)
BigStr(a) ==
    IF Len(a) <= 1 THEN NatStr(NatOfBig(a))
    ELSE BigStr(Tail(a)) \o Limb4(Head(a))

\* int(text) for a text of decimal digits
RECURSIVE BigOfDigits(_)
BigOfDigits(s) ==
    IF s = <<>> THEN <<>>
    ELSE BigAdd(BigMulSmall(BigOfDigits(SubSeq(s, 1, Len(s) - 1)), 10),
                BigOfNat(DigitVal(s[Len(s)])))

(***************************************************************************)
(* IEEE-754 doubles: [m, e] is m * 2^e                                     *)
(***************************************************************************)

\* the double nearest to (a + f) * 2^e, where the fraction f in [0, 1) is
\* nonzero iff sticky; a sticky a has at least 54 bits
Round53(a, sticky, e) ==
    IF BigLess(a, BigPow2(53)) THEN [m |-> a, e |-> e]
    ELSE The({[m |-> BigShrRound(a, n - 53, sticky), e |-> e + n - 53] : n \in {BitLen(a)}})

IsPow2(a) == a # <<>> /\ a = BigPow2(BitLen(a) - 1)

ScaleUp(a, k) == IF k > 0 THEN BigMul(a, BigPow2(k)) ELSE a

\* the double nearest to the quotient of a by den, times 2^(-k)
RoundQuot(a, den, k) ==
    The({Round53(qr[1], qr[2] # <<>>, IF k > 0 THEN -k ELSE 0) : qr \in {BigDivMod(a, den)}})

\* the double nearest to num / den (53 significant bits, ties to even): the
\* quotient is taken with at least 54 bits, and then rounded
RoundRat(num, den) ==
    IF num = <<>> THEN [m |-> <<>>, e |-> 0]
    ELSE IF IsPow2(den) THEN Round53(num, FALSE, 1 - BitLen(den))
    ELSE The({The({RoundQuot(a, den, k) : a \in {ScaleUp(num, k)}}) :
                 k \in {55 - (BitLen(num) - BitLen(den))}})

\* float(n) of an int n
DblOfInt(n) == Round53(n, FALSE, 0)

\* a / b of two ints (true division, correctly rounded)
IntTrueDiv(a, b) == RoundRat(a, b)

\* x * y
DblMul(x, y) == The({Round53(p, FALSE, x.e + y.e) : p \in {BigMul(x.m, y.m)}})

\* x / y, y # 0
DblDiv(x, y) == The({[m |-> r.m, e |-> r.e + x.e - y.e] : r \in {RoundRat(x.m, y.m)}})

\* -1, 0, 1 as x <, =, > y
DblCmp(x, y) ==
    The({BigCmp(ScaleUp(x.m, x.e - lo), ScaleUp(y.m, y.e - lo)) :
            lo \in {IF x.e < y.e THEN x.e ELSE y.e}})

\* int(x): truncation (x >= 0)
DblTrunc(x) == IF x.e >= 0 THEN ScaleUp(x.m, x.e) ELSE BigShr(x.m, -x.e)[1]

\* math.ceil(x)
DblCeil(x) ==
    IF x.e >= 0 THEN ScaleUp(x.m, x.e)
    ELSE The({BigBump(qs[1], qs[2]) : qs \in {BigShr(x.m, -x.e)}})

RECURSIVE PadZeros(_, _)
PadZeros(s, n) == IF Len(s) >= n THEN s ELSE PadZeros(<<"0">> \o s, n)

\* x * 10^d rounded to an integer (of its exact binary value, ties to even)
DblScaled(x, d) ==
    IF x.e >= 0 THEN BigMul(ScaleUp(x.m, x.e), BigPow10(d))
    ELSE The({BigShrRound(a, -x.e, FALSE) : a \in {BigMul(x.m, BigPow10(d))}})

\* f"{x:.{d}f}"
DblFixed(x, d) ==
    The({BigStr(qr[1]) \o <<".">> \o PadZeros(BigStr(qr[2]), d) :
            qr \in {BigDivMod(t, BigPow10(d)) : t \in {DblScaled(x, d)}}})

\* float(text) of the text ip "." fp (fp may be empty: no fraction)
DblOfDecimal(ip, fp) ==
    The({RoundRat(n, BigPow10(Len(fp))) : n \in {BigOfDigits(ip \o fp)}})

(***************************************************************************)
(* Python values.  An int is [t |-> "int", v |-> its limbs], a str is       *)
(* [t |-> "str", v |-> its characters], None is [t |-> "none"], a list is    *)
(* [t |-> "list"], a dict is [t |-> "dict", v |-> a record of its entries,   *)
(* an entry that is not there being Absent].  A call ends with Return(value) *)
(* or Raise(exception type, the function that raised it).                    *)
(***************************************************************************)
PyInt(n)  == [t |-> "int", v |-> n]
PyStr(s)  == [t |-> "str", v |-> s]
PyNone    == [t |-> "none"]
PyList    == [t |-> "list"]
PyDict(d) == [t |-> "dict", v |-> d]
Absent    == [t |-> "absent"]
IsInt(x)  == x.t = "int"
IsStr(x)  == x.t = "str"
IsDict(x) == x.t = "dict"
IsAbsent(x) == x.t = "absent"

\* x == y of Python, for the values above
PyEq(x, y) == x.t = y.t /\ (x.t \in {"int", "str", "dict"} => x.v = y.v)

Return(v)    == [kind |-> "return", val |-> v]
Raise(e, by) == [kind |-> "raise", exc |-> e, by |-> by]
Returned(r)  == r.kind = "return"
Raised(r)    == r.kind = "raise"

\* how a call ended, its value as the Python value it is: an int, a str
AsInt(r) == IF Returned(r) THEN Return(PyInt(r.val)) ELSE r
AsStr(r) == IF Returned(r) THEN Return(PyStr(r.val)) ELSE r

UpperCase == <<"A", "B", "C", "D", "E", "F", "G", "H", "I", "J", "K", "L", "M", "N", "O", "P", "Q", "R", "S", "T", "U", "V", "W", "X", "Y", "Z">>
LowerCase == <<"a", "b", "c", "d", "e", "f", "g", "h", "i", "j", "k", "l", "m", "n", "o", "p", "q", "r", "s", "t", "u", "v", "w", "x", "y", "z">>

\* str.lower() of one character
LowerChar(c) ==
    IF \E i \in 1..Len(UpperCase) : UpperCase[i] = c
    THEN LowerCase[CHOOSE i \in 1..Len(UpperCase) : UpperCase[i] = c]
    ELSE c

\* str.lower()
Lower(s) == [i \in 1..Len(s) |-> LowerChar(s[i])]

\* the number of digits s has from position i on, before its first non-digit
DigitRun(s, i) ==
    Max({k \in 0..(Len(s) - i + 1) : \A j \in i..(i + k - 1) : IsDigit(s[j])})

(***************************************************************************)
(* utils.py                                                                *)
(***************************************************************************)
\* class Precision(IntEnum), in the order of its definition
Precision == <<32, 16, 8, 4>>

STR_float32  == <<"f", "l", "o", "a", "t", "3", "2">>
STR_float16  == <<"f", "l", "o", "a", "t", "1", "6">>
STR_bfloat16 == <<"b", "f", "l", "o", "a", "t", "1", "6">>
STR_int8     == <<"i", "n", "t", "8">>
STR_int4     == <<"i", "n", "t", "4">>

\* PRECISION_MAP.get(dtype, Precision.BITS_32), for a hashable dtype
PRECISION_MAP(dtype) ==
    IF ~IsStr(dtype) THEN 32
    ELSE CASE dtype.v = STR_float32  -> 32
           [] dtype.v = STR_float16  -> 16
           [] dtype.v = STR_bfloat16 -> 16
           [] dtype.v = STR_int8     -> 8
           [] dtype.v = STR_int4     -> 4
           [] OTHER                  -> 32

\* class ModelSizeUnit(IntEnum): MILLION, BILLION, TRILLION
ModelSizeUnit == <<BigPow10(6), BigPow10(9), BigPow10(12)>>

\* get_model_file_size, on what the hub did: a weight file of a size was
\* found, none was found, or a request failed
get_model_file_size(hub) ==
    CASE hub.kind = "size" -> Return(PyInt(hub.size))
      [] hub.kind = "none" -> Return(PyNone)
      [] OTHER -> Raise("ValueError", "get_model_file_size")

\* get_model_config, on the response of requests.get (or what it raised)
get_model_config(response) ==
    CASE response.kind = "response" /\ response.status_code = 200 -> Return(response.json)
      [] response.kind = "response" /\ response.status_code # 200 ->
             Raise("ValueError", "get_model_config")
      [] OTHER -> Raise(response.kind, "requests.get")

\* the float literal 1.2
OnePointTwo == DblOfDecimal(<<"1">>, <<"2">>)

\* calculate_memory: (total_parameters * 4) / (32 / precision) * 1.2, for ints
calculate_memory(total_parameters, precision) ==
    IF precision = <<>> THEN Raise("ZeroDivisionError", "calculate_memory")
    ELSE The({Return(DblMul(q, OnePointTwo)) :
                 q \in {DblDiv(a, b) : a \in {DblOfInt(BigMulSmall(total_parameters, 4))},
                                       b \in {IntTrueDiv(<<32>>, precision)}}})

\* convert_bytes_to_human_readable
convert_bytes_to_human_readable(bytes_value) ==
    The({DblFixed(x.v, 2) \o x.unit :
            x \in {IF DblCmp(gb, DblOfInt(<<1>>)) >= 0
                   THEN [v |-> gb, unit |-> <<" ", "G", "B">>]
                   ELSE [v |-> mb, unit |-> <<" ", "M", "B">>] :
                      gb \in {DblDiv(bytes_value, DblOfInt(BigPow2(30)))},
                      mb \in {DblDiv(bytes_value, DblOfInt(BigPow2(20)))}}})

\* the span re.match(r"(\d+(\.\d+)?)([mbt])", s) matches at the start of s:
\* its groups 1 (as ip "." fp) and 3, when it matches
SizeMatch(s) ==
    LET n1 == DigitRun(s, 1)
        n2 == IF n1 + 1 <= Len(s) /\ s[n1 + 1] = "." THEN DigitRun(s, n1 + 2) ELSE 0
        u  == IF n2 > 0 THEN n1 + n2 + 2 ELSE n1 + 1
    IN  IF n1 >= 1 /\ u <= Len(s) /\ s[u] \in {"m", "b", "t"}
        THEN [ok |-> TRUE, ip |-> SubSeq(s, 1, n1),
              fp |-> SubSeq(s, n1 + 2, n1 + 1 + n2), unit |-> s[u]]
        ELSE [ok |-> FALSE]

\* parse_model_size, line 112: size_mapping[unit]
ParseSizeMapping(unit) ==
    CASE unit = "m" -> ModelSizeUnit[1]
      [] unit = "b" -> ModelSizeUnit[2]
      [] unit = "t" -> ModelSizeUnit[3]

\* parse_model_size, lines 111-113: int(float(number) * size_mapping[unit])
ParseNumber(match) ==
    The({Return(DblTrunc(p)) :
            p \in {DblMul(number, mult) :
                      number \in {DblOfDecimal(match.ip, match.fp)},
                      mult \in {DblOfInt(ParseSizeMapping(match.unit))}}})

\* parse_model_size
parse_model_size(size_str) ==
    The({IF ~match.ok THEN Raise("ValueError", "parse_model_size") ELSE ParseNumber(match) :
            match \in {SizeMatch(Lower(size_str))}})

\* format_model_size, lines 121-125: size_mapping
FormatSizeMapping ==
    <<[threshold |-> ModelSizeUnit[3], unit |-> "T"],
      [threshold |-> ModelSizeUnit[2], unit |-> "B"],
      [threshold |-> ModelSizeUnit[1], unit |-> "M"]>>

\* FormatWith with floor division: f"{size_int // threshold:.1f}{unit}"
FormatWithFloorDiv(size_int, entry) ==
    The({BigStr(q) \o <<".", "0">> \o <<entry.unit>> : q \in {BigDiv(size_int, entry.threshold)}})

\* format_model_size, line 128: f"{size_int / threshold:.1f}{unit}"
FormatWith(size_int, entry) ==
    The({DblFixed(x, 1) \o <<entry.unit>> : x \in {IntTrueDiv(size_int, entry.threshold)}})

\* format_model_size: the first entry of size_mapping that size_int reaches
\* renders it; none does: str(size_int)
format_model_size(size_int) ==
    The({IF hits = {} THEN BigStr(size_int)
         ELSE FormatWith(size_int, FormatSizeMapping[Min(hits)]) :
            hits \in {{i \in 1..Len(FormatSizeMapping) :
                          BigLeq(FormatSizeMapping[i].threshold, size_int)}}})

\* estimate_parameters, for ints
estimate_parameters(file_size_bytes, precision) ==
    IF precision = <<>> THEN Raise("ZeroDivisionError", "estimate_parameters")
    ELSE The({Return(DblCeil(estimated_parameters)) :
                 estimated_parameters \in {IntTrueDiv(total_bits, precision) :
                                              total_bits \in {BigMulSmall(file_size_bytes, 8)}}})

(***************************************************************************)
(* core.py                                                                 *)
(***************************************************************************)
STR_all  == <<"a", "l", "l">>
STR_auto == <<"a", "u", "t", "o">>

TXT_Required   == <<"R", "e", "q", "u", "i", "r", "e", "d", " ", "G", "P", "U", " ", "M", "e", "m", "o", "r", "y", "[">>
TXT_parameters == <<"p", "a", "r", "a", "m", "e", "t", "e", "r", "s", ":", " ">>
TXT_precision  == <<"p", "r", "e", "c", "i", "s", "i", "o", "n", ":", " ">>
TXT_bullet     == <<" ", " ", "-", " ">>
TXT_bit        == <<"b", "i", "t", ":", " ">>

\* "\n".join(lines)
RECURSIVE JoinLines(_)
JoinLines(lines) ==
    IF Len(lines) = 0 THEN <<>>
    ELSE IF Len(lines) = 1 THEN lines[1]
    ELSE lines[1] \o <<"\n">> \o JoinLines(Tail(lines))

\* determine_precision, for a dict model_config with the entries
\* "quantization", "quantization_config" and "torch_dtype"; of a dict
\* quantization_config, load_in_4bit and load_in_8bit are the truth values of
\* .get("load_in_4bit") and .get("load_in_8bit")
determine_precision(model_config) ==
    IF ~IsAbsent(model_config.quantization)
    THEN IF ~IsDict(model_config.quantization)
         THEN Raise("AttributeError", "determine_precision")
         ELSE IF ~IsAbsent(model_config.quantization.v.bits)
         THEN Return(model_config.quantization.v.bits)
         ELSE IF ~IsAbsent(model_config.torch_dtype)
         THEN Return(model_config.torch_dtype)
         ELSE Return(PyInt(<<32>>))
    ELSE IF ~IsAbsent(model_config.quantization_config)
            /\ ~IsDict(model_config.quantization_config)
    THEN Raise("AttributeError", "determine_precision")
    ELSE IF ~IsAbsent(model_config.quantization_config)
            /\ model_config.quantization_config.v.load_in_4bit
    THEN Return(PyInt(<<4>>))
    ELSE IF ~IsAbsent(model_config.quantization_config)
            /\ model_config.quantization_config.v.load_in_8bit
    THEN Return(PyInt(<<8>>))
    ELSE IF model_config.torch_dtype.t = "list"
    THEN Raise("TypeError", "determine_precision")
    ELSE Return(PyInt(BigOfNat(PRECISION_MAP(model_config.torch_dtype))))

\* one line of calculate_all_precisions: f"  - {precision}bit: {...}"
PrecisionLine(num_params, precision) ==
    The({TXT_bullet \o NatStr(precision) \o TXT_bit \o convert_bytes_to_human_readable(gpu_mem.val) :
            gpu_mem \in {calculate_memory(num_params, BigOfNat(precision))}})

\* calculate_all_precisions going through the precisions in ascending order:
\* for precision in sorted(Precision)
calculate_all_precisions_ascending(num_params, model_name_or_path) ==
    The({IF model_name_or_path # <<>>
         THEN TXT_Required \o model_name_or_path \o <<",", " ">> \o TXT_parameters
              \o label \o <<"]", "\n">> \o JoinLines(results)
         ELSE TXT_Required \o TXT_parameters
              \o label \o <<"]", "\n">> \o JoinLines(results) :
            results \in {[i \in 1..Len(Precision) |->
                             PrecisionLine(num_params, Precision[Len(Precision) + 1 - i])]},
            label \in {format_model_size(num_params)}})

\* calculate_all_precisions; model_name_or_path is <<>> when it is not given
calculate_all_precisions(num_params, model_name_or_path) ==
    The({IF model_name_or_path # <<>>
         THEN TXT_Required \o model_name_or_path \o <<",", " ">> \o TXT_parameters
              \o label \o <<"]", "\n">> \o JoinLines(results)
         ELSE TXT_Required \o TXT_parameters
              \o label \o <<"]", "\n">> \o JoinLines(results) :
            results \in {[i \in 1..Len(Precision) |-> PrecisionLine(num_params, Precision[i])]},
            label \in {format_model_size(num_params)}})

\* from_params, lines 87-91, for an int num_params
from_params_int(num_params, precision) ==
    IF PyEq(precision, PyStr(STR_all))
    THEN Return(calculate_all_precisions(num_params, <<>>))
    ELSE IF ~IsInt(precision) THEN Raise("TypeError", "calculate_memory")
    ELSE The({IF Raised(gpu_mem) THEN gpu_mem
              ELSE Return(TXT_Required \o TXT_parameters \o format_model_size(num_params)
                          \o <<",", " ">> \o TXT_precision \o BigStr(precision.v)
                          \o <<"]", ":", " ">>
                          \o convert_bytes_to_human_readable(gpu_mem.val)) :
                 gpu_mem \in {calculate_memory(num_params, precision.v)}})

\* from_params
from_params(num_params, precision) ==
    The({IF Raised(parsed) THEN parsed ELSE from_params_int(parsed.val, precision) :
            parsed \in {IF IsStr(num_params) THEN parse_model_size(num_params.v)
                        ELSE Return(num_params.v)}})

\* from_hf, lines 70-72: the report of one precision
from_hf_single(model_name_or_path, model_size, precision) ==
    The({IF Raised(num_params) THEN num_params
         ELSE The({Return(TXT_Required \o model_name_or_path \o <<",", " ">> \o TXT_precision
                          \o BigStr(precision) \o <<"]", ":", " ">>
                          \o convert_bytes_to_human_readable(gpu_mem.val)) :
                      gpu_mem \in {calculate_memory(num_params.val, precision)}}) :
            num_params \in {estimate_parameters(model_size, precision)}})

\* from_hf, lines 67-72: the report, once model_size and precision are known
from_hf_report(model_name_or_path, model_size, precision) ==
    IF PyEq(precision, PyStr(STR_all))
    THEN Return(calculate_all_precisions(model_size, model_name_or_path))
    ELSE IF ~IsInt(precision) THEN Raise("TypeError", "estimate_parameters")
    ELSE from_hf_single(model_name_or_path, model_size, precision.v)

\* get_model_size, lines 25-34, on what get_safetensors_metadata did: it
\* returned metadata whose "total_size" is the text total_size, it raised
\* NotASafetensorsRepoError (the file size is asked for next), or it raised
\* something else
get_model_size(metadata) ==
    CASE metadata.kind = "metadata" -> Return(BigOfDigits(metadata.total_size))
      [] metadata.kind = "NotASafetensorsRepoError" -> [kind |-> "get_model_file_size"]
      [] OTHER -> Raise("ValueError", "get_model_size")

\* get_model_size, lines 29-32, on the result of get_model_file_size
get_model_size_fallback(size) ==
    IF Raised(size) THEN size
    ELSE IF size.val.t = "none" THEN Raise("ValueError", "get_model_size")
    ELSE Return(size.val.v)

\* from_hf_size recovering from a size that cannot be obtained: it goes on
\* with 0 bytes
from_hf_size_recovering(model_name_or_path, precision, r) ==
    The({IF PyEq(precision, PyStr(STR_auto))
         THEN [pc |-> "get_model_config", ret |-> [kind |-> "none"], model_size |-> size]
         ELSE [pc |-> "done", ret |-> from_hf_report(model_name_or_path, size, precision),
               model_size |-> size] :
            size \in {IF Raised(r) THEN <<>> ELSE r.val}})

\* from_hf, lines 61-72, once get_model_size ended with r: up to the fetch of
\* the configuration, or to the end
from_hf_size(model_name_or_path, precision, r) ==
    IF Raised(r) THEN [pc |-> "done", ret |-> r, model_size |-> <<>>]
    ELSE IF PyEq(precision, PyStr(STR_auto))
    THEN [pc |-> "get_model_config", ret |-> [kind |-> "none"], model_size |-> r.val]
    ELSE [pc |-> "done", ret |-> from_hf_report(model_name_or_path, r.val, precision),
          model_size |-> r.val]

\* from_hf, lines 64-72, once get_model_config ended with r
from_hf_config(model_name_or_path, model_size, precision, r) ==
    IF Raised(r) THEN [ret |-> r, precision |-> precision]
    ELSE The({IF Raised(p) THEN [ret |-> p, precision |-> precision]
              ELSE [ret |-> from_hf_report(model_name_or_path, model_size, p.val),
                    precision |-> p.val] :
                 p \in {determine_precision(r.val)}})

(***************************************************************************)
(* cli.py                                                                  *)
(***************************************************************************)
\* re.match(r'^\d+(?:\.\d+)?[MBTmbt]$', s): "$" is the end, or a last "\n"
CliMatch(s) ==
    LET n1 == DigitRun(s, 1)
        n2 == IF n1 + 1 <= Len(s) /\ s[n1 + 1] = "." THEN DigitRun(s, n1 + 2) ELSE 0
        u  == IF n2 > 0 THEN n1 + n2 + 2 ELSE n1 + 1
    IN  /\ n1 >= 1
        /\ u <= Len(s)
        /\ s[u] \in {"M", "B", "T", "m", "b", "t"}
        /\ (u = Len(s) \/ (u + 1 = Len(s) /\ s[u + 1] = "\n"))

\* cli, lines 12-21: the call it makes for the parsed arguments; argparse
\* gives both arguments as str
cli(model_or_params, precision) ==
    LET p == IF precision \notin {STR_all, STR_auto}
             THEN PyInt(BigOfDigits(precision)) ELSE PyStr(precision)
        model_input == PyStr(model_or_params)
    IN  IF IsInt(model_input) \/ CliMatch(model_input.v)
        THEN [fn |-> "from_params", num_params |-> model_input,
              precision |-> IF PyEq(p, PyStr(STR_auto)) THEN PyStr(STR_all) ELSE p]
        ELSE [fn |-> "from_hf", model_name_or_path |-> model_input.v, precision |-> p]

(***************************************************************************)
(* The inputs.                                                             *)
(***************************************************************************)
MaxTwentieths == 20
MaxBytes == 40

\* texts given as size labels: well-formed ones, and ones that are not
SizeTexts ==
    << <<"7", "B">>,
       <<"7", "b">>,
       <<"1", ".", "5", "T">>,
       <<"0", ".", "5", "7", "M">>,
       <<"4", "0", "5", "B">>,
       <<"1", "0", "0", "0", ".", "0", "M">>,
       <<"1", ".", "0", "5", "b">>,
       <<"7", "B", "x", "y", "z">>,
       <<"7", ".", "5", "M", "b">>,
       <<"b", "a", "d">>,
       <<"7">>,
       <<".", "5", "M">>,
       <<"7", ".", "B">>,
       <<"7", "0", "0", "0", "0", "0", "0", "0", "0", "0">> >>

\* registry model identifiers
ModelNames == << <<"g", "p", "t", "2">>, <<"o", "r", "g", "/", "m">> >>

\* parameter counts around the unit 10^k: 10^k * (20 + j) / 20 - 1 + d
Count(k, j, d) ==
    BigSub(BigAdd(BigMulSmall(BigPow10(k - 2), 5 * (20 + j)), BigOfNat(d)), <<1>>)

\* just below the next unit, where one decimal renders 1000.0: 10^(k+3) - 5 * 10^(k-2) - 1 + d
CountBelow(k, d) ==
    BigSub(BigAdd(BigMulSmall(BigPow10(k - 2), 99995), BigOfNat(d)), <<1>>)

ParamCounts ==
    {Count(k, j, d) : k \in {6, 9, 12}, j \in 0..MaxTwentieths, d \in 0..2}
    \cup {CountBelow(k, d) : k \in {6, 9}, d \in 0..1}
    \cup {BigOfNat(999999), BigMulSmall(BigPow10(9), 405), BigMulSmall(BigPow10(12), 12345)}

\* file sizes in bytes: small ones, the sizes of real repositories, and
\* sizes around 2^53
FileSizes ==
    {BigOfNat(j) : j \in 0..MaxBytes}
    \cup {BigOfNat(4000000), BigOfDigits(<<"1", "4", "4", "8", "3", "4", "6", "4", "1", "9", "2">>)}
    \cup {BigAdd(BigPow2(53), BigOfNat(d)) : d \in 0..3}

\* the "total_size" texts and file sizes the registry answers with
HubSizes == <<<<"4", "0", "0", "0", "0", "0", "0">>, <<"1", "4", "4", "8", "3", "4", "6", "4", "1", "9", "2">>>>

PrecisionArgs ==
    <<PyStr(STR_all), PyStr(STR_auto), PyInt(<<32>>), PyInt(<<16>>), PyInt(<<8>>), PyInt(<<4>>)>>

PrecisionChoices == <<STR_all, STR_auto, <<"3", "2">>, <<"1", "6">>, <<"8">>, <<"4">>>>

Quantizations ==
    <<Absent, PyNone, PyDict([bits |-> Absent]), PyDict([bits |-> PyInt(<<4>>)]),
      PyDict([bits |-> PyInt(<<3>>)]), PyDict([bits |-> PyStr(STR_all)])>>

QuantizationConfigs ==
    <<Absent, PyNone,
      PyDict([load_in_4bit |-> FALSE, load_in_8bit |-> FALSE]),
      PyDict([load_in_4bit |-> TRUE,  load_in_8bit |-> FALSE]),
      PyDict([load_in_4bit |-> FALSE, load_in_8bit |-> TRUE]),
      PyDict([load_in_4bit |-> TRUE,  load_in_8bit |-> TRUE])>>

TorchDtypes ==
    <<Absent, PyNone, PyList, PyStr(STR_float32), PyStr(STR_float16), PyStr(STR_bfloat16),
      PyStr(STR_int8), PyStr(STR_int4), PyStr(<<"f", "l", "o", "a", "t", "6", "4">>)>>

Config(q, c, d) ==
    [quantization |-> Quantizations[q], quantization_config |-> QuantizationConfigs[c],
     torch_dtype |-> TorchDtypes[d]]

\* the configurations the registry answers with: <<q, c, d>> of Config
HubConfigs ==
    <<<<1, 1, 1>>, <<1, 1, 5>>, <<1, 1, 9>>, <<1, 4, 5>>, <<1, 5, 1>>, <<1, 3, 6>>,
      <<4, 1, 5>>, <<5, 1, 1>>, <<3, 1, 5>>, <<3, 1, 1>>, <<6, 1, 1>>, <<2, 1, 1>>,
      <<1, 2, 1>>, <<1, 1, 3>>>>

(***************************************************************************)
(* The program: one query at a time.  A call of a function that asks the   *)
(* registry nothing is one step; from_hf stops at each request to the      *)
(* registry, whose answer is the registry's choice.                        *)
(***************************************************************************)
VARIABLES
    pc,           \* "idle", the request from_hf waits for, or "done"
    call,         \* the call being served, with its arguments
    ret,          \* how the call ended: Return(..) or Raise(..)
    model_size,   \* from_hf's model_size
    precision,    \* from_hf's precision
    fetches,      \* the number of requests made of each kind, in this call
    raised        \* what get_model_size or get_model_config raised, in this call

vars == <<pc, call, ret, model_size, precision, fetches, raised>>

NoRet == [kind |-> "none"]
NoFetches == [get_safetensors_metadata |-> 0, get_model_file_size |-> 0, get_model_config |-> 0]

Init ==
    /\ pc = "idle"
    /\ call = [fn |-> "none"]
    /\ ret = NoRet
    /\ model_size = <<>>
    /\ precision = PyNone
    /\ fetches = NoFetches
    /\ raised = NoRet

\* a call that asks the registry nothing, from its start to its end
Pure(c, r) ==
    /\ pc' = "done"
    /\ call' = c
    /\ ret' = r
    /\ UNCHANGED <<model_size, precision, fetches, raised>>

CallParseModelSize ==
    /\ pc = "idle"
    /\ \E i \in 1..Len(SizeTexts) :
           Pure([fn |-> "parse_model_size", size_str |-> SizeTexts[i]],
                AsInt(parse_model_size(SizeTexts[i])))

CallFormatModelSize ==
    /\ pc = "idle"
    /\ \E n \in ParamCounts :
           Pure([fn |-> "format_model_size", size_int |-> n],
                AsStr(Return(format_model_size(n))))

CallEstimateParameters ==
    /\ pc = "idle"
    /\ \E S \in FileSizes, i \in 1..Len(Precision) :
           Pure([fn |-> "estimate_parameters", file_size_bytes |-> S,
                 precision |-> Precision[i]],
                AsInt(estimate_parameters(S, BigOfNat(Precision[i]))))

CallDeterminePrecision ==
    /\ pc = "idle"
    /\ \E q \in 1..Len(Quantizations), c \in 1..Len(QuantizationConfigs),
          d \in 1..Len(TorchDtypes) :
           Pure([fn |-> "determine_precision", model_config |-> Config(q, c, d)],
                determine_precision(Config(q, c, d)))

\* the counts given to from_params as ints
IntParams ==
    {Count(k, j, 1) : k \in {6, 9, 12}, j \in {0, 1}}
    \cup {<<>>, BigOfNat(500000), BigMulSmall(BigPow10(9), 405), BigMulSmall(BigPow10(9), 7)}

CallFromParams ==
    /\ pc = "idle"
    /\ \E i \in 1..Len(PrecisionArgs) :
           \/ \E j \in 1..Len(SizeTexts) :
                 Pure([fn |-> "from_params", via |-> "api", num_params |-> PyStr(SizeTexts[j]),
                       precision |-> PrecisionArgs[i]],
                      AsStr(from_params(PyStr(SizeTexts[j]), PrecisionArgs[i])))
           \/ \E n \in IntParams :
                 Pure([fn |-> "from_params", via |-> "api", num_params |-> PyInt(n),
                       precision |-> PrecisionArgs[i]],
                      AsStr(from_params(PyInt(n), PrecisionArgs[i])))

\* from_hf is called: it asks for the safetensors metadata first
StartFromHf(c) ==
    /\ pc' = "get_safetensors_metadata"
    /\ call' = c
    /\ precision' = c.precision
    /\ UNCHANGED <<ret, model_size, fetches, raised>>

CallFromHf ==
    /\ pc = "idle"
    /\ \E m \in 1..Len(ModelNames), i \in 1..Len(PrecisionArgs) :
           StartFromHf([fn |-> "from_hf", via |-> "api", model_name_or_path |-> ModelNames[m],
                        precision |-> PrecisionArgs[i]])

\* the texts given on the command line
CliInputs == SizeTexts \o ModelNames \o <<<<"7", "B", "\n">>>>

\* the command line: cli makes its call
CallCli ==
    /\ pc = "idle"
    /\ \E a \in 1..Len(CliInputs), o \in 1..Len(PrecisionChoices) :
           LET c == cli(CliInputs[a], PrecisionChoices[o])
               argv == <<CliInputs[a], PrecisionChoices[o]>>
           IN  IF c.fn = "from_params"
               THEN Pure([fn |-> "from_params", via |-> "cli", argv |-> argv,
                          num_params |-> c.num_params, precision |-> c.precision],
                         AsStr(from_params(c.num_params, c.precision)))
               ELSE StartFromHf([fn |-> "from_hf", via |-> "cli", argv |-> argv,
                                 model_name_or_path |-> c.model_name_or_path,
                                 precision |-> c.precision])

\* from_hf goes on after get_model_size ended with r
AfterSize(r) ==
    LET nxt == from_hf_size(call.model_name_or_path, call.precision, r)
    IN  /\ pc' = nxt.pc
        /\ ret' = AsStr(nxt.ret)
        /\ model_size' = nxt.model_size
        /\ raised' = IF Raised(r) THEN r ELSE raised
        /\ UNCHANGED <<call, precision>>

\* what get_safetensors_metadata may do
SafetensorsAnswers ==
    {[kind |-> "metadata", total_size |-> HubSizes[i]] : i \in 1..Len(HubSizes)}
    \cup {[kind |-> k] : k \in {"NotASafetensorsRepoError", "RepositoryNotFoundError", "KeyError"}}

GetSafetensorsMetadata ==
    /\ pc = "get_safetensors_metadata"
    /\ fetches' = [fetches EXCEPT !.get_safetensors_metadata = @ + 1]
    /\ \E metadata \in SafetensorsAnswers :
          IF Raised(get_model_size(metadata)) \/ Returned(get_model_size(metadata))
          THEN AfterSize(get_model_size(metadata))
          ELSE /\ pc' = "get_model_file_size"
               /\ UNCHANGED <<call, ret, model_size, precision, raised>>

\* what the hub may do for get_model_file_size
FileSizeAnswers ==
    {[kind |-> "size", size |-> BigOfDigits(HubSizes[i])] : i \in 1..Len(HubSizes)}
    \cup {[kind |-> k] : k \in {"none", "error"}}

GetModelFileSize ==
    /\ pc = "get_model_file_size"
    /\ fetches' = [fetches EXCEPT !.get_model_file_size = @ + 1]
    /\ \E hub \in FileSizeAnswers :
          AfterSize(get_model_size_fallback(get_model_file_size(hub)))

\* what requests.get may do for the configuration
ConfigAnswers ==
    {[kind |-> "response", status_code |-> 200,
      json |-> Config(HubConfigs[i][1], HubConfigs[i][2], HubConfigs[i][3])] :
        i \in 1..Len(HubConfigs)}
    \cup {[kind |-> "response", status_code |-> 404], [kind |-> "ConnectionError"]}

GetModelConfig ==
    /\ pc = "get_model_config"
    /\ fetches' = [fetches EXCEPT !.get_model_config = @ + 1]
    /\ \E response \in ConfigAnswers :
          LET r   == get_model_config(response)
              nxt == from_hf_config(call.model_name_or_path, model_size, precision, r)
          IN  /\ pc' = "done"
              /\ ret' = AsStr(nxt.ret)
              /\ precision' = nxt.precision
              /\ raised' = IF Raised(r) THEN r ELSE raised
              /\ UNCHANGED <<call, model_size>>

\* the query is over; the next one starts afresh
Done ==
    /\ pc = "done"
    /\ pc' = "idle"
    /\ call' = [fn |-> "none"]
    /\ ret' = NoRet
    /\ model_size' = <<>>
    /\ precision' = PyNone
    /\ fetches' = NoFetches
    /\ raised' = NoRet

Next ==
    \/ CallParseModelSize
    \/ CallFormatModelSize
    \/ CallEstimateParameters
    \/ CallDeterminePrecision
    \/ CallFromParams
    \/ CallFromHf
    \/ CallCli
    \/ GetSafetensorsMetadata
    \/ GetModelFileSize
    \/ GetModelConfig
    \/ Done

Spec == Init /\ [][Next]_vars

(***************************************************************************)
(* The claims.                                                             *)
(***************************************************************************)
Finished(fn) == pc = "done" /\ call.fn = fn

\* the lines of a text: its pieces between "\n"s
SplitLines(s) ==
    LET nl     == {i \in 1..Len(s) : s[i] = "\n"}
        at(k)  == IF k = 0 THEN 0
                  ELSE IF k > Cardinality(nl) THEN Len(s) + 1
                  ELSE CHOOSE q \in nl : Cardinality({r \in nl : r < q}) = k - 1
    IN  [k \in 1..(Cardinality(nl) + 1) |-> SubSeq(s, at(k - 1) + 1, at(k) - 1)]

StandardPrecisions == {<<32>>, <<16>>, <<8>>, <<4>>}

\* C1: when from_hf(model, "all") has obtained the file size S, its report is
\* the all-precisions report of the parameter count N = estimate_parameters(S, 32):
\* the header label and the four estimates come from N, not from S.
C1_AllReportFromParameterCount ==
    (Finished("from_hf") /\ PyEq(call.precision, PyStr(STR_all)) /\ ~Raised(raised))
        => /\ Returned(ret)
           /\ ret.val.v = calculate_all_precisions(estimate_parameters(model_size, <<32>>).val,
                                                   call.model_name_or_path)

\* C2: determine_precision never raises and returns one of 32, 16, 8, 4, for
\* every configuration.
C2_PrecisionAlwaysStandard ==
    Finished("determine_precision")
        => Returned(ret) /\ IsInt(ret.val) /\ ret.val.v \in StandardPrecisions

\* the reference policy of C3, for a configuration whose quantization and
\* quantization_config are dicts when present and whose dtype is a str when present
C3_Policy(cfg) ==
    IF ~IsAbsent(cfg.quantization)
    THEN IF ~IsAbsent(cfg.quantization.v.bits) THEN cfg.quantization.v.bits
         ELSE PyInt(BigOfNat(PRECISION_MAP(cfg.torch_dtype)))
    ELSE IF ~IsAbsent(cfg.quantization_config) /\ cfg.quantization_config.v.load_in_4bit
    THEN PyInt(<<4>>)
    ELSE IF ~IsAbsent(cfg.quantization_config) /\ cfg.quantization_config.v.load_in_8bit
    THEN PyInt(<<8>>)
    ELSE PyInt(BigOfNat(PRECISION_MAP(cfg.torch_dtype)))

C3_WellFormed(cfg) ==
    /\ IsAbsent(cfg.quantization) \/ IsDict(cfg.quantization)
    /\ IsAbsent(cfg.quantization_config) \/ IsDict(cfg.quantization_config)
    /\ IsAbsent(cfg.torch_dtype) \/ IsStr(cfg.torch_dtype)

\* C3: determine_precision is the fixed-priority policy: "quantization" gives
\* its bits, else the dtype-table precision of the declared dtype, else 32;
\* else "quantization_config" gives 4 for load_in_4bit, else 8 for
\* load_in_8bit; else the dtype table, with 32 for an unknown or missing dtype.
C3_PrecisionIsPolicy ==
    (Finished("determine_precision") /\ C3_WellFormed(call.model_config))
        => Returned(ret) /\ PyEq(ret.val, C3_Policy(call.model_config))

\* digits only, at least one
C4_BareNumeral(s) == Len(s) >= 1 /\ \A i \in 1..Len(s) : IsDigit(s[i])

\* the whole of s is <digits>[.<digits>]<unit>, unit one of M, B, T in either case
WholeLabel(s) ==
    LET n1 == DigitRun(s, 1)
        n2 == IF n1 + 1 <= Len(s) /\ s[n1 + 1] = "." THEN DigitRun(s, n1 + 2) ELSE 0
        u  == IF n2 > 0 THEN n1 + n2 + 2 ELSE n1 + 1
    IN  n1 >= 1 /\ u = Len(s) /\ s[u] \in {"M", "B", "T", "m", "b", "t"}

\* C4: the command line routes a bare numeral or a <number><M|B|T> text to
\* from_params, and every other text to from_hf.
C4_Routing ==
    (call.fn \in {"from_params", "from_hf"} /\ call.via = "cli")
        => call.fn = IF C4_BareNumeral(call.argv[1]) \/ WholeLabel(call.argv[1])
                     THEN "from_params" ELSE "from_hf"

\* C5: from_hf(model, "auto"), once the configuration is fetched, resolves to
\* one precision p and returns the one-line "precision: p" report, never the
\* block of all precisions.
C5_AutoIsSingle ==
    (Finished("from_hf") /\ PyEq(call.precision, PyStr(STR_auto))
     /\ fetches.get_model_config = 1 /\ ~Raised(raised))
        => /\ Returned(ret)
           /\ IsInt(precision)
           /\ Len(SplitLines(ret.val.v)) = 1
           /\ ret = AsStr(from_hf_single(call.model_name_or_path, model_size, precision.v))

\* C6: parse_model_size raises the invalid-format error for every text that
\* is not, as a whole, <digits>[.<digits>]<unit>, and returns the number times
\* the unit's multiplier, truncated, for every text that is.
C6_ParseWholePattern ==
    Finished("parse_model_size")
        => IF WholeLabel(call.size_str)
           THEN ret = AsInt(ParseNumber(SizeMatch(Lower(call.size_str))))
           ELSE ret = Raise("ValueError", "parse_model_size")

\* C7: when get_model_size or (with "auto") get_model_config fails, from_hf
\* is over with exactly that error and no report; and no request to the
\* registry is made twice in one call.
C7_ErrorsSurfaceOnce ==
    /\ \A k \in DOMAIN fetches : fetches[k] <= 1
    /\ (call.fn = "from_hf" /\ Raised(raised)) => (pc = "done" /\ ret = raised)
    /\ (Finished("from_hf") /\ Raised(ret) /\ ret.by \in {"get_model_size",
            "get_model_file_size", "get_model_config", "requests.get"}) => ret = raised

C7_Witness ==
    /\ Finished("from_hf")
    /\ Raised(ret) /\ ret.by = "get_model_config"
    /\ fetches = [get_safetensors_metadata |-> 1, get_model_file_size |-> 1,
                  get_model_config |-> 1]

\* C8: estimate_parameters(S, p) is the ceiling N of 8 S / p, for p in 32, 16,
\* 8, 4: N p >= 8 S > (N - 1) p; and it does not decrease from S to S + 1.
C8_Ceiling ==
    Finished("estimate_parameters")
        => /\ Returned(ret)
           /\ BigLeq(BigMulSmall(call.file_size_bytes, 8),
                     BigMulSmall(ret.val.v, call.precision))
           /\ \/ ret.val.v = <<>>
              \/ BigLess(BigMulSmall(BigSub(ret.val.v, <<1>>), call.precision),
                         BigMulSmall(call.file_size_bytes, 8))
           /\ BigLeq(ret.val.v,
                     estimate_parameters(BigAdd(call.file_size_bytes, <<1>>),
                                         BigOfNat(call.precision)).val)

\* |a - b|
BigDist(a, b) == IF BigLeq(a, b) THEN BigSub(b, a) ELSE BigSub(a, b)

\* C9: for a count n >= 10^6, parse_model_size(format_model_size(n)) returns,
\* and its value is within 5% of n.
C9_RoundTrip ==
    (Finished("format_model_size") /\ BigLeq(BigPow10(6), call.size_int))
        => The({/\ Returned(back)
                /\ BigLeq(BigMulSmall(BigDist(back.val, call.size_int), 20), call.size_int) :
                   back \in {parse_model_size(ret.val.v)}})

\* a count just below 10^9 is rendered 1000.0M, and parses back
C9_Witness ==
    /\ Finished("format_model_size")
    /\ ret.val.v = <<"1", "0", "0", "0", ".", "0", "M">>
    /\ Returned(parse_model_size(ret.val.v))
    /\ BigLess(call.size_int, BigPow10(9))

\* the count a from_params call is about, when its num_params is valid
C10_Count(num_params) ==
    IF IsInt(num_params) THEN num_params.v ELSE parse_model_size(num_params.v).val

\* C10: from_params(x, "all"), for a valid label or a count x, returns the
\* header line "Required GPU Memory[parameters: ..]" and then exactly four
\* lines, for 32, 16, 8 and 4 bits in this order, each with the memory
\* estimate of the count at that precision; a label gives what the count it
\* parses to gives.
C10_AllReport ==
    (Finished("from_params") /\ PyEq(call.precision, PyStr(STR_all))
     /\ (IsStr(call.num_params) => WholeLabel(call.num_params.v)))
        => /\ Returned(ret)
           /\ The({/\ Len(lines) = 5
                   /\ lines[1] = TXT_Required \o TXT_parameters \o format_model_size(n) \o <<"]">>
                   /\ \A i \in 1..4 :
                         lines[i + 1] =
                             TXT_bullet \o NatStr(<<32, 16, 8, 4>>[i]) \o TXT_bit
                             \o convert_bytes_to_human_readable(
                                    calculate_memory(n, BigOfNat(<<32, 16, 8, 4>>[i])).val) :
                      lines \in {SplitLines(ret.val.v)}, n \in {C10_Count(call.num_params)}})
           /\ ret = AsStr(from_params(PyInt(C10_Count(call.num_params)), PyStr(STR_all)))

C10_Witness ==
    /\ Finished("from_params")
    /\ PyEq(call.precision, PyStr(STR_all))
    /\ IsStr(call.num_params) /\ call.num_params.v = <<"4", "0", "5", "B">>
    /\ Returned(ret) /\ Len(SplitLines(ret.val.v)) = 5

====
